---- MODULE Spec2Model ----
(***************************************************************************)
(* A model of the iris-session pallet                                      *)
(* (bin/node-template/pallets/iris-session/src/lib.rs).                    *)
(*                                                                         *)
(* Two specifications share the variables:                                 *)
(*   Spec        the validator registry: the three dispatchables, the      *)
(*               session manager and the offence reporter acting on the    *)
(*               storage values Validators, ApprovedValidators and         *)
(*               OfflineValidators;                                        *)
(*   SpecWorker  the offchain worker: one tick after the other, each IPFS  *)
(*               request a step whose response the environment chooses.    *)
(*                                                                         *)
(* The dispatchables carry no #[transactional] attribute and the pallet    *)
(* macro of this code base adds no storage layer of its own, so a write    *)
(* made before a later `?` returns an error stays in storage.              *)
(***************************************************************************)
EXTENDS Integers, Sequences, FiniteSets, TLC

VARIABLES
    Validators,          \* StorageValue Vec<AccountId>            (lib.rs:102)
    ApprovedValidators,  \* StorageValue Vec<AccountId>            (lib.rs:106)
    OfflineValidators,   \* StorageValue Vec<AccountId>            (lib.rs:110)
    MinAuthorities,      \* Config::MinAuthorities, a Get<u32>     (lib.rs:79)
    last,                \* the last call: its arguments, result, events and pre-state
    worker               \* the offchain worker's position and its effects this tick

vars == <<Validators, ApprovedValidators, OfflineValidators, MinAuthorities, last, worker>>

(***************************************************************************)
(* Bounds                                                                  *)
(***************************************************************************)
MaxMinAuthorities == 2   \* MinAuthorities ranges over 0..MaxMinAuthorities
MaxOffenders == 2        \* offenders named by one offence report
MaxOffline == 2          \* cap on the length of OfflineValidators

AccountIds == {"A", "B", "C"}
Root == "Root"
\* an origin is Root or Signed(account); a signed origin is written as the account
Origins == {Root} \cup AccountIds
SessionIndices == {0, 1}
\* The genesis validator sets tried, up to a renaming of the accounts: every
\* operation treats account ids alike, so a two- and a three-validator genesis
\* stand for all duplicate-free ones (do_add_validator keeps Validators so).
GenesisValidators == {<<"A", "B">>, <<"A", "B", "C">>}
NoId == "-"

(***************************************************************************)
(* Vec helpers                                                             *)
(***************************************************************************)
Range(s) == {s[i] : i \in 1..Len(s)}

\* Vec::retain(|v| *v != x)
RetainNe(s, x) == SelectSeq(s, LAMBDA v : v # x)

\* Vec::retain(|v| !set.contains(v))
RetainNotIn(s, set) == SelectSeq(s, LAMBDA v : v \notin set)

NoDup(s) == \A i, j \in 1..Len(s) : i # j => s[i] # s[j]

\* usize::saturating_sub
saturating_sub(a, b) == IF a >= b THEN a - b ELSE 0

(***************************************************************************)
(* The registry's storage as one value, and a call's outcome               *)
(***************************************************************************)
Storage == [Validators |-> Validators,
            ApprovedValidators |-> ApprovedValidators,
            OfflineValidators |-> OfflineValidators]

Outcome(res, st, events) == [res |-> res, st |-> st, events |-> events]

\* AddRemoveOrigin::ensure_origin: the host runtime sets it to root
AddRemoveOrigin(origin) == origin = Root

\* frame_system::ensure_signed
ensure_signed(origin) == origin \in AccountIds

(***************************************************************************)
(* Validator registry                                                      *)
(***************************************************************************)
do_add_validator_NoCheck(st, validator_id) ==
    Outcome("Ok",
            [st EXCEPT !.Validators = Append(@, validator_id)],
            <<<<"ValidatorAdditionInitiated", validator_id>>>>)

do_add_validator(st, validator_id) ==
    LET validator_set == Range(st.Validators)
    IN  IF validator_id \in validator_set
        THEN Outcome("Duplicate", st, <<>>)
        ELSE Outcome("Ok",
                     [st EXCEPT !.Validators = Append(@, validator_id)],
                     <<<<"ValidatorAdditionInitiated", validator_id>>>>)

do_remove_validator_OffByOne(st, validator_id, min) ==
    LET validators == st.Validators
    IN  IF ~(Len(validators) >= min)
        THEN Outcome("TooLowValidatorCount", st, <<>>)
        ELSE Outcome("Ok",
                     [st EXCEPT !.Validators = RetainNe(validators, validator_id)],
                     <<<<"ValidatorRemovalInitiated", validator_id>>>>)

do_remove_validator_NoFloor(st, validator_id, min) ==
    Outcome("Ok",
            [st EXCEPT !.Validators = RetainNe(@, validator_id)],
            <<<<"ValidatorRemovalInitiated", validator_id>>>>)

\* the floor is applied to the count the removal would leave, so that an id
\* that is not there passes whenever the present count does
do_remove_validator_CountAfter(st, validator_id, min) ==
    LET validators == st.Validators
    IN  IF ~(Len(RetainNe(validators, validator_id)) >= min)
        THEN Outcome("TooLowValidatorCount", st, <<>>)
        ELSE Outcome("Ok",
                     [st EXCEPT !.Validators = RetainNe(validators, validator_id)],
                     <<<<"ValidatorRemovalInitiated", validator_id>>>>)

do_remove_validator(st, validator_id, min) ==
    LET validators == st.Validators
    IN  IF ~(saturating_sub(Len(validators), 1) >= min)
        THEN Outcome("TooLowValidatorCount", st, <<>>)
        ELSE Outcome("Ok",
                     [st EXCEPT !.Validators = RetainNe(validators, validator_id)],
                     <<<<"ValidatorRemovalInitiated", validator_id>>>>)

approve_validator(st, validator_id) ==
    LET approved_set == Range(st.ApprovedValidators)
    IN  IF validator_id \in approved_set
        THEN Outcome("Duplicate", st, <<>>)
        ELSE Outcome("Ok",
                     [st EXCEPT !.ApprovedValidators = Append(@, validator_id)],
                     <<>>)

\* The retained vector is a local copy that is never put back into storage.
unapprove_validator(st, validator_id) ==
    LET approved_set == RetainNe(st.ApprovedValidators, validator_id)
    IN  Outcome("Ok", st, <<>>)

\* an id already marked is not marked again
mark_for_removal_Dedup(st, validator_id) ==
    IF validator_id \in Range(st.OfflineValidators) THEN st
    ELSE [st EXCEPT !.OfflineValidators = Append(@, validator_id)]

mark_for_removal(st, validator_id) ==
    [st EXCEPT !.OfflineValidators = Append(@, validator_id)]

\* each mark removes one entry by position, the position defaulting to the
\* front when the id is no longer there
RECURSIVE RemoveEachMark(_, _)
RemoveEachMark(vs, marks) ==
    IF marks = <<>> \/ vs = <<>> THEN vs
    ELSE LET v == Head(marks)
             pos == IF v \in Range(vs) THEN CHOOSE i \in 1..Len(vs) : vs[i] = v ELSE 1
         IN  RemoveEachMark(SubSeq(vs, 1, pos - 1) \o SubSeq(vs, pos + 1, Len(vs)),
                            Tail(marks))

remove_offline_validators_PerMark(st) ==
    [st EXCEPT !.Validators = RemoveEachMark(@, st.OfflineValidators),
               !.OfflineValidators = <<>>]

remove_offline_validators_KeepCache(st) ==
    LET validators_to_remove == Range(st.OfflineValidators)
    IN  [st EXCEPT !.Validators = RetainNotIn(@, validators_to_remove)]

\* only the marks that took a validator out are cleared: the mark of an id that
\* was not active stays for a later boundary
remove_offline_validators_KeepUnapplied(st) ==
    LET validators_to_remove == Range(st.OfflineValidators)
    IN  [st EXCEPT !.Validators = RetainNotIn(@, validators_to_remove),
                   !.OfflineValidators = RetainNotIn(@, Range(st.Validators))]

\* the validators taken out lose their approval as well
remove_offline_validators_Unapprove(st) ==
    LET validators_to_remove == Range(st.OfflineValidators)
    IN  [st EXCEPT !.Validators = RetainNotIn(@, validators_to_remove),
                   !.ApprovedValidators = RetainNotIn(@, validators_to_remove),
                   !.OfflineValidators = <<>>]

remove_offline_validators(st) ==
    LET validators_to_remove == Range(st.OfflineValidators)
    IN  [st EXCEPT !.Validators = RetainNotIn(@, validators_to_remove),
                   !.OfflineValidators = <<>>]

(***************************************************************************)
(* Dispatchables: `?` returns the first error; what was written stays      *)
(***************************************************************************)
\* the id is added to Validators without being approved
add_validator_call_NoApprove(st, origin, validator_id) ==
    IF ~AddRemoveOrigin(origin) THEN Outcome("DispatchError::BadOrigin", st, <<>>)
    ELSE do_add_validator(st, validator_id)

add_validator_call(st, origin, validator_id) ==
    IF ~AddRemoveOrigin(origin) THEN Outcome("DispatchError::BadOrigin", st, <<>>)
    ELSE LET a == do_add_validator(st, validator_id)
         IN  IF a.res # "Ok" THEN a
             ELSE LET b == approve_validator(a.st, validator_id)
                  IN  Outcome(b.res, b.st, a.events \o b.events)

remove_validator_call(st, origin, validator_id, min) ==
    IF ~AddRemoveOrigin(origin) THEN Outcome("DispatchError::BadOrigin", st, <<>>)
    ELSE LET a == do_remove_validator(st, validator_id, min)
         IN  IF a.res # "Ok" THEN a
             ELSE LET b == unapprove_validator(a.st, validator_id)
                  IN  Outcome(b.res, b.st, a.events \o b.events)

add_validator_again_NoApproval(st, origin, validator_id) ==
    IF ~ensure_signed(origin) THEN Outcome("DispatchError::BadOrigin", st, <<>>)
    ELSE IF origin # validator_id THEN Outcome("BadOrigin", st, <<>>)
         ELSE do_add_validator(st, validator_id)

add_validator_again_AnyCaller(st, origin, validator_id) ==
    IF ~ensure_signed(origin) THEN Outcome("DispatchError::BadOrigin", st, <<>>)
    ELSE IF validator_id \notin Range(st.ApprovedValidators)
         THEN Outcome("ValidatorNotApproved", st, <<>>)
         ELSE do_add_validator(st, validator_id)

add_validator_again_call(st, origin, validator_id) ==
    IF ~ensure_signed(origin) THEN Outcome("DispatchError::BadOrigin", st, <<>>)
    ELSE LET who == origin
             approved_set == Range(st.ApprovedValidators)
         IN  IF who # validator_id THEN Outcome("BadOrigin", st, <<>>)
             ELSE IF validator_id \notin approved_set
                  THEN Outcome("ValidatorNotApproved", st, <<>>)
                  ELSE do_add_validator(st, validator_id)

\* report_offence: every offender of the report is marked, in order
RECURSIVE report_offence_marks(_, _)
report_offence_marks(st, offenders) ==
    IF offenders = <<>> THEN st
    ELSE report_offence_marks(mark_for_removal(st, Head(offenders)), Tail(offenders))

(***************************************************************************)
(* Actions of the registry                                                 *)
(***************************************************************************)
Call(op, origin, validator_id, offenders, index, out, ret) ==
    [op |-> op, origin |-> origin, validator_id |-> validator_id,
     offenders |-> offenders, index |-> index,
     res |-> out.res, events |-> out.events, ret |-> ret, pre |-> Storage]

Commit(out) ==
    /\ Validators' = out.st.Validators
    /\ ApprovedValidators' = out.st.ApprovedValidators
    /\ OfflineValidators' = out.st.OfflineValidators

WorkerIdle == [pc |-> "off"]

\* GenesisBuild::build -> initialize_validators: more than one validator,
\* written to Validators and to ApprovedValidators
initialize_validators(validators) ==
    /\ Len(validators) > 1
    /\ Validators = validators
    /\ ApprovedValidators = validators

Init ==
    /\ \E validators \in GenesisValidators : initialize_validators(validators)
    /\ OfflineValidators = <<>>
    /\ MinAuthorities \in 0..MaxMinAuthorities
    /\ last = [op |-> "genesis", origin |-> Root, validator_id |-> NoId,
               offenders |-> <<>>, index |-> 0, res |-> "Ok", events |-> <<>>,
               ret |-> <<>>, pre |-> Storage]
    /\ worker = WorkerIdle

add_validator ==
    \E origin \in Origins, validator_id \in AccountIds :
        LET out == add_validator_call(Storage, origin, validator_id)
        IN  /\ Commit(out)
            /\ last' = Call("add_validator", origin, validator_id, <<>>, 0, out, <<>>)
            /\ UNCHANGED <<MinAuthorities, worker>>

remove_validator ==
    \E origin \in Origins, validator_id \in AccountIds :
        LET out == remove_validator_call(Storage, origin, validator_id, MinAuthorities)
        IN  /\ Commit(out)
            /\ last' = Call("remove_validator", origin, validator_id, <<>>, 0, out, <<>>)
            /\ UNCHANGED <<MinAuthorities, worker>>

add_validator_again ==
    \E origin \in Origins, validator_id \in AccountIds :
        LET out == add_validator_again_call(Storage, origin, validator_id)
        IN  /\ Commit(out)
            /\ last' = Call("add_validator_again", origin, validator_id, <<>>, 0, out, <<>>)
            /\ UNCHANGED <<MinAuthorities, worker>>

report_offence ==
    \E n \in 0..MaxOffenders :
        \E offenders \in [1..n -> AccountIds] :
            /\ Len(OfflineValidators) + n <= MaxOffline
            /\ LET out == Outcome("Ok", report_offence_marks(Storage, offenders), <<>>)
               IN  /\ Commit(out)
                   /\ last' = Call("report_offence", Root, NoId, offenders, 0, out, <<>>)
            /\ UNCHANGED <<MinAuthorities, worker>>

\* _offenders and _time_slot are ignored
is_known_offence ==
    \E n \in 0..MaxOffenders :
        \E _offenders \in [1..n -> AccountIds] :
            /\ last' = Call("is_known_offence", Root, NoId, <<>>, 0,
                            Outcome("false", Storage, <<>>), <<>>)
            /\ UNCHANGED <<Validators, ApprovedValidators, OfflineValidators,
                           MinAuthorities, worker>>

\* the validator set is read before the offline validators are removed
new_session_call_Stale(st, new_index) ==
    [res |-> "Some", st |-> remove_offline_validators(st), ret |-> st.Validators]

\* SessionManager::new_session: Some(Self::validators()) after the removal
new_session_call(st, new_index) ==
    LET after == remove_offline_validators(st)
    IN  [res |-> "Some", st |-> after, ret |-> after.Validators]

new_session ==
    \E new_index \in SessionIndices :
        LET planned == new_session_call(Storage, new_index)
            out == Outcome(planned.res, planned.st, <<>>)
        IN  /\ Commit(out)
            /\ last' = Call("new_session", Root, NoId, <<>>, new_index, out, planned.ret)
            /\ UNCHANGED <<MinAuthorities, worker>>

end_session ==
    \E end_index \in SessionIndices :
        /\ last' = Call("end_session", Root, NoId, <<>>, end_index,
                        Outcome("Ok", Storage, <<>>), <<>>)
        /\ UNCHANGED <<Validators, ApprovedValidators, OfflineValidators,
                       MinAuthorities, worker>>

start_session ==
    \E start_index \in SessionIndices :
        /\ last' = Call("start_session", Root, NoId, <<>>, start_index,
                        Outcome("Ok", Storage, <<>>), <<>>)
        /\ UNCHANGED <<Validators, ApprovedValidators, OfflineValidators,
                       MinAuthorities, worker>>

Next ==
    \/ add_validator
    \/ remove_validator
    \/ add_validator_again
    \/ report_offence
    \/ is_known_offence
    \/ new_session
    \/ end_session
    \/ start_session

Spec == Init /\ [][Next]_vars

(***************************************************************************)
(* Offchain worker                                                         *)
(*                                                                         *)
(* A tick is offchain_worker(block_number).  Its stages are steps: the     *)
(* housekeeping, one step per command of the data queue, the metadata      *)
(* probe.  The environment chooses the response of every IPFS request,     *)
(* the ledger's answers, the bootstrap directory the housekeeping reads    *)
(* and the number of local signing accounts a command finds.               *)
(***************************************************************************)
MaxBlock == 6     \* ticks run for block numbers 1..MaxBlock
MaxQueue == 2     \* commands in the data queue at a tick
MaxSigners == 2   \* local accounts of Signer::all_accounts()

HousekeepingPeriod == 5

\* Option<T>
None == <<>>
Some(v) == <<v>>

\* what the embedded IPFS node does with a request (ipfs::PendingRequest)
IpfsOutcomes == {"Ok", "CantCreate", "Timeout", "Error"}

ipfs_request(outcome) ==
    CASE outcome = "CantCreate" -> "CantCreateRequest"
      [] outcome = "Timeout"    -> "RequestTimeout"
      [] outcome = "Error"      -> "RequestFailed"
      [] OTHER                  -> "Ok"

\* T::Balance is wider than u64: a balance is hi * 2^64 + lo
Balances == {[hi |-> 0, lo |-> 0], [hi |-> 0, lo |-> 5], [hi |-> 1, lo |-> 0]}

\* TryInto::<u64>::try_into(balance).ok()
try_into_u64(balance) == IF balance.hi = 0 THEN Some(balance.lo) ELSE None

\* the commands of pallet_iris_assets::DataCommand placed in the queue
AddBytesCmd == [kind |-> "AddBytes", addr |-> "/ip4/source", cid |-> "X",
                who |-> "Admin", id |-> 7, balance |-> 1]
CatBytesCmd == [kind |-> "CatBytes", addr |-> "", cid |-> "X",
                who |-> "R", id |-> 0, balance |-> 0]
DataCommands == {AddBytesCmd, CatBytesCmd}

\* the bytes CatBytes returns and the cid AddBytes returns
FetchedData == "data"
NewCid == "Z"

Request(kind, arg) == <<kind, arg>>

\* signer.send_signed_transaction(|_account| call): one call per local account
send_signed_transaction(signers, call) == [i \in 1..signers |-> call]

\* The record of one command of the queue: what the ledger answered, the IPFS
\* requests issued, the local-storage writes, the transactions submitted, what
\* was logged, and how the command ended: "Ok", "Logged" (an error logged, the
\* loop goes on) or the error handle_data_requests returns with.  signers is
\* Some(number of local accounts) once Signer::all_accounts() was asked.
\* responses[i] tells whether requests[i] was answered Ok or with an error; the
\* kind of the error is kept where it becomes the function's result.
Done(cmd, mapped, balance, requests, responses, storage_set, signers, submitted, logged, result) ==
    [cmd |-> cmd, mapped |-> mapped, balance |-> balance, requests |-> requests,
     responses |-> responses, storage_set |-> storage_set, signers |-> signers,
     submitted |-> submitted, logged |-> logged, result |-> result]

NoBalance == [hi |-> 0, lo |-> 0]

\* the transaction carries the cid that was asked for, not the one AddBytes returned
AddBytes_command_RequestedCid(cmd, signers, connect, cat, disconnect, add) ==
    LET r1 == <<Request("Connect", cmd.addr)>>
        r2 == Append(r1, Request("CatBytes", cmd.cid))
        r3 == Append(r2, Request("Disconnect", cmd.addr))
        r4 == Append(r3, Request("AddBytes", FetchedData))
        call == [call |-> "submit_ipfs_add_results", admin |-> cmd.who,
                 cid |-> cmd.cid, id |-> cmd.id, balance |-> cmd.balance]
    IN  IF ipfs_request(connect) # "Ok"
        THEN Done(cmd, TRUE, NoBalance, r1, <<"Err">>, <<>>, None, <<>>, <<>>,
                  ipfs_request(connect))
        ELSE IF ipfs_request(cat) # "Ok"
        THEN Done(cmd, TRUE, NoBalance, r2, <<"Ok", "Err">>, <<>>, None, <<>>,
                  <<"cat error">>, "Logged")
        ELSE IF ipfs_request(disconnect) # "Ok"
        THEN Done(cmd, TRUE, NoBalance, r3, <<"Ok", "Ok", "Err">>, <<>>, None, <<>>, <<>>,
                  ipfs_request(disconnect))
        ELSE IF ipfs_request(add) # "Ok"
        THEN Done(cmd, TRUE, NoBalance, r4, <<"Ok", "Ok", "Ok", "Err">>, <<>>, None, <<>>,
                  <<"add error">>, "Logged")
        ELSE Done(cmd, TRUE, NoBalance, r4, <<"Ok", "Ok", "Ok", "Ok">>, <<>>, Some(signers),
                  send_signed_transaction(signers, call),
                  IF signers = 0 THEN <<"No local accounts available">> ELSE <<>>,
                  "Ok")

\* the result of the Connect request is dropped instead of returned with `?`
AddBytes_command_IgnoreConnect(cmd, signers, connect, cat, disconnect, add) ==
    LET r1 == <<Request("Connect", cmd.addr)>>
        r2 == Append(r1, Request("CatBytes", cmd.cid))
        r3 == Append(r2, Request("Disconnect", cmd.addr))
        r4 == Append(r3, Request("AddBytes", FetchedData))
        c == IF ipfs_request(connect) = "Ok" THEN "Ok" ELSE "Err"
        call == [call |-> "submit_ipfs_add_results", admin |-> cmd.who,
                 cid |-> NewCid, id |-> cmd.id, balance |-> cmd.balance]
    IN  IF ipfs_request(cat) # "Ok"
        THEN Done(cmd, TRUE, NoBalance, r2, <<c, "Err">>, <<>>, None, <<>>,
                  <<"cat error">>, "Logged")
        ELSE IF ipfs_request(disconnect) # "Ok"
        THEN Done(cmd, TRUE, NoBalance, r3, <<c, "Ok", "Err">>, <<>>, None, <<>>, <<>>,
                  ipfs_request(disconnect))
        ELSE IF ipfs_request(add) # "Ok"
        THEN Done(cmd, TRUE, NoBalance, r4, <<c, "Ok", "Ok", "Err">>, <<>>, None, <<>>,
                  <<"add error">>, "Logged")
        ELSE Done(cmd, TRUE, NoBalance, r4, <<c, "Ok", "Ok", "Ok">>, <<>>, Some(signers),
                  send_signed_transaction(signers, call),
                  IF signers = 0 THEN <<"No local accounts available">> ELSE <<>>,
                  "Ok")

\* DataCommand::AddBytes(addr, cid, admin, _name, id, balance)
AddBytes_command(cmd, signers, connect, cat, disconnect, add) ==
    LET r1 == <<Request("Connect", cmd.addr)>>
        r2 == Append(r1, Request("CatBytes", cmd.cid))
        r3 == Append(r2, Request("Disconnect", cmd.addr))
        r4 == Append(r3, Request("AddBytes", FetchedData))
        call == [call |-> "submit_ipfs_add_results", admin |-> cmd.who,
                 cid |-> NewCid, id |-> cmd.id, balance |-> cmd.balance]
    IN  IF ipfs_request(connect) # "Ok"
        THEN Done(cmd, TRUE, NoBalance, r1, <<"Err">>, <<>>, None, <<>>, <<>>,
                  ipfs_request(connect))
        ELSE IF ipfs_request(cat) # "Ok"
        THEN Done(cmd, TRUE, NoBalance, r2, <<"Ok", "Err">>, <<>>, None, <<>>,
                  <<"cat error">>, "Logged")
        ELSE IF ipfs_request(disconnect) # "Ok"
        THEN Done(cmd, TRUE, NoBalance, r3, <<"Ok", "Ok", "Err">>, <<>>, None, <<>>, <<>>,
                  ipfs_request(disconnect))
        ELSE IF ipfs_request(add) # "Ok"
        THEN Done(cmd, TRUE, NoBalance, r4, <<"Ok", "Ok", "Ok", "Err">>, <<>>, None, <<>>,
                  <<"add error">>, "Logged")
        ELSE Done(cmd, TRUE, NoBalance, r4, <<"Ok", "Ok", "Ok", "Ok">>, <<>>, Some(signers),
                  send_signed_transaction(signers, call),
                  IF signers = 0 THEN <<"No local accounts available">> ELSE <<>>,
                  "Ok")

\* a balance that does not fit u64 counts as zero (unwrap_or(0) != 0)
CatBytes_command_DenyUnconverted(cmd, signers, mapped, balance, cat) ==
    LET balance_primitive == try_into_u64(balance)
        r1 == <<Request("CatBytes", cmd.cid)>>
        call == [call |-> "submit_rpc_ready", beneficiary |-> cmd.who]
    IN  IF balance_primitive = None \/ balance_primitive = Some(0)
        THEN Done(cmd, mapped, balance, <<>>, <<>>, <<>>, None, <<>>, <<>>,
                  "InsufficientBalance")
        ELSE IF ipfs_request(cat) # "Ok"
        THEN Done(cmd, mapped, balance, r1, <<"Err">>, <<>>, None, <<>>,
                  <<"cat error">>, "Logged")
        ELSE Done(cmd, mapped, balance, r1, <<"Ok">>, <<<<cmd.cid, FetchedData>>>>,
                  Some(signers),
                  send_signed_transaction(signers, call),
                  IF signers = 0 THEN <<"No local accounts available">> ELSE <<>>,
                  "Ok")

\* the transaction is sent once, whatever the number of local accounts
CatBytes_command_SingleTx(cmd, signers, mapped, balance, cat) ==
    LET balance_primitive == try_into_u64(balance)
        r1 == <<Request("CatBytes", cmd.cid)>>
        call == [call |-> "submit_rpc_ready", beneficiary |-> cmd.who]
    IN  IF ~(balance_primitive # Some(0))
        THEN Done(cmd, mapped, balance, <<>>, <<>>, <<>>, None, <<>>, <<>>,
                  "InsufficientBalance")
        ELSE IF ipfs_request(cat) # "Ok"
        THEN Done(cmd, mapped, balance, r1, <<"Err">>, <<>>, None, <<>>,
                  <<"cat error">>, "Logged")
        ELSE Done(cmd, mapped, balance, r1, <<"Ok">>, <<<<cmd.cid, FetchedData>>>>,
                  Some(signers), <<call>>, <<>>, "Ok")

CatBytes_command_NoGate(cmd, signers, mapped, balance, cat) ==
    LET r1 == <<Request("CatBytes", cmd.cid)>>
        call == [call |-> "submit_rpc_ready", beneficiary |-> cmd.who]
    IN  IF ipfs_request(cat) # "Ok"
        THEN Done(cmd, mapped, balance, r1, <<"Err">>, <<>>, None, <<>>,
                  <<"cat error">>, "Logged")
        ELSE Done(cmd, mapped, balance, r1, <<"Ok">>, <<<<cmd.cid, FetchedData>>>>,
                  Some(signers),
                  send_signed_transaction(signers, call),
                  IF signers = 0 THEN <<"No local accounts available">> ELSE <<>>,
                  "Ok")

\* DataCommand::CatBytes(owner, cid, recipient).  `if let asset_id = ...` binds
\* whatever asset_class_ownership returns, so the lookup's answer (mapped or
\* not) does not choose the branch; the else branch is never taken.
CatBytes_command(cmd, signers, mapped, balance, cat) ==
    LET balance_primitive == try_into_u64(balance)
        r1 == <<Request("CatBytes", cmd.cid)>>
        call == [call |-> "submit_rpc_ready", beneficiary |-> cmd.who]
    IN  IF ~(balance_primitive # Some(0))
        THEN Done(cmd, mapped, balance, <<>>, <<>>, <<>>, None, <<>>, <<>>,
                  "InsufficientBalance")
        ELSE IF ipfs_request(cat) # "Ok"
        THEN Done(cmd, mapped, balance, r1, <<"Err">>, <<>>, None, <<>>,
                  <<"cat error">>, "Logged")
        ELSE Done(cmd, mapped, balance, r1, <<"Ok">>, <<<<cmd.cid, FetchedData>>>>,
                  Some(signers),
                  send_signed_transaction(signers, call),
                  IF signers = 0 THEN <<"No local accounts available">> ELSE <<>>,
                  "Ok")

\* whether the loop of handle_data_requests goes on after this command
Continues(done) == done.result \in {"Ok", "Logged"}

\* BootstrapNodes as connection_housekeeping reads it: whether the node's own
\* public key is a key of the map, and the multiaddresses of the first entry
\* (None when the map is empty)
BootstrapDirectories ==
    {[own |-> own, first |-> first] :
        own \in BOOLEAN,
        first \in {None, Some(<<>>), Some(<<"m1">>), Some(<<"m1", "m2">>)}}

\* Vec::pop on a clone: the last element, if any
pop(v) == IF v = <<>> THEN None ELSE Some(v[Len(v)])

\* the responses a Connect request can be answered with: Success, another Ok
\* response, or an error
ConnectOutcomes == IpfsOutcomes \cup {"OkOther"}

\* how a Connect request was answered, as connection_housekeeping tells it apart
Answer(outcome) ==
    IF ipfs_request(outcome) # "Ok" THEN "Err"
    ELSE IF outcome = "Ok" THEN "Ok" ELSE "OkOther"

\* connection_housekeeping: the requests it issues, how they were answered and
\* what it returns
connection_housekeeping_run(bootstrap, identity, connect1, connect2) ==
    LET r0 == <<Request("Identity", "")>>
    IN  IF ipfs_request(identity) # "Ok"
        THEN [requests |-> r0, responses |-> <<"Err">>, result |-> ipfs_request(identity)]
        ELSE IF bootstrap.own \/ bootstrap.first = None \/ pop(bootstrap.first[1]) = None
        THEN [requests |-> r0, responses |-> <<"Ok">>, result |-> "Ok"]
        ELSE LET bootnode_maddr == pop(bootstrap.first[1])[1]
                 r1 == Append(r0, Request("Connect", bootnode_maddr))
             IN  IF ipfs_request(connect1) # "Ok"
                 THEN [requests |-> r1, responses |-> <<"Ok", "Err">>,
                       result |-> ipfs_request(connect1)]
                 ELSE IF connect1 = "Ok"
                 THEN [requests |-> r1, responses |-> <<"Ok", "Ok">>, result |-> "Ok"]
                 ELSE LET next_bootnode_maddr == pop(bootstrap.first[1])[1]
                          r2 == Append(r1, Request("Connect", next_bootnode_maddr))
                      IN  IF ipfs_request(connect2) # "Ok"
                          THEN [requests |-> r2, responses |-> <<"Ok", "OkOther", "Err">>,
                                result |-> ipfs_request(connect2)]
                          ELSE [requests |-> r2,
                                responses |-> <<"Ok", "OkOther", Answer(connect2)>>,
                                result |-> "Ok"]

\* print_metadata
print_metadata_run(peers) ==
    [requests |-> <<Request("Peers", "")>>,
     responses |-> <<IF ipfs_request(peers) = "Ok" THEN "Ok" ELSE "Err">>,
     result |-> ipfs_request(peers)]

Stage(name, result) == <<name, result>>

\* block_number % 5 == 0
EveryFive(block_number) == block_number % HousekeepingPeriod = 0

AfterPipeline(block_number) == IF EveryFive(block_number) THEN "print_metadata" ELSE "idle"

(***************************************************************************)
(* Actions of the offchain worker                                          *)
(***************************************************************************)
RegistryUnchanged ==
    UNCHANGED <<Validators, ApprovedValidators, OfflineValidators, MinAuthorities, last>>

InitWorker ==
    /\ initialize_validators(<<"A", "B">>)
    /\ OfflineValidators = <<>>
    /\ MinAuthorities = 2
    /\ last = [op |-> "genesis", origin |-> Root, validator_id |-> NoId,
               offenders |-> <<>>, index |-> 0, res |-> "Ok", events |-> <<>>,
               ret |-> <<>>, pre |-> Storage]
    /\ worker = [pc |-> "idle", block_number |-> 0, bootstrap |-> None, queue |-> <<>>,
                 stages |-> <<>>, requests |-> <<>>, responses |-> <<>>, done |-> <<>>]

\* a tick begins: the hook is entered with the next block number; the trace of
\* the tick before is dropped
offchain_worker ==
    /\ worker.pc = "idle"
    /\ worker.block_number < MaxBlock
    /\ LET block_number == worker.block_number + 1
       IN  worker' = [worker EXCEPT
                         !.pc = IF EveryFive(block_number)
                                THEN "connection_housekeeping"
                                ELSE "handle_data_requests",
                         !.block_number = block_number,
                         !.bootstrap = None, !.queue = <<>>, !.stages = <<>>, !.requests = <<>>,
                         !.responses = <<>>, !.done = <<>>]
    /\ RegistryUnchanged

connection_housekeeping ==
    /\ worker.pc = "connection_housekeeping"
    /\ \E bootstrap \in BootstrapDirectories, identity \in IpfsOutcomes,
          connect1 \in ConnectOutcomes, connect2 \in ConnectOutcomes :
           LET run == connection_housekeeping_run(bootstrap, identity, connect1, connect2)
           IN  worker' = [worker EXCEPT
                             !.pc = "handle_data_requests",
                             !.bootstrap = Some(bootstrap),
                             !.requests = run.requests,
                             !.responses = run.responses,
                             !.stages = Append(@, Stage("connection_housekeeping", run.result))]
    /\ RegistryUnchanged

\* handle_data_requests reads the data queue.  worker.bootstrap,
\* worker.requests and worker.responses describe the stage that ran last: the housekeeping's are
\* dropped here (its result stays in worker.stages), a command's requests are
\* kept in its record of worker.done.
handle_data_requests ==
    /\ worker.pc = "handle_data_requests"
    /\ \E n \in 0..MaxQueue :
           \E data_queue \in [1..n -> DataCommands] :
               worker' = [worker EXCEPT !.pc = "for cmd", !.queue = data_queue,
                                        !.bootstrap = None, !.requests = <<>>,
                                        !.responses = <<>>]
    /\ RegistryUnchanged

\* the error of handle_data_requests ends the tick (returned with `?` instead
\* of logged)
Processed_ErrorEndsTick(done) ==
    worker' = [worker EXCEPT
                  !.queue = Tail(@),
                  !.done = Append(@, done),
                  !.pc = IF Continues(done) THEN "for cmd" ELSE "idle",
                  !.stages = IF Continues(done) THEN @
                             ELSE Append(@, Stage("handle_data_requests", done.result))]

\* the loop body, and the return of handle_data_requests after it
Processed(done) ==
    worker' = [worker EXCEPT
                  !.queue = Tail(@),
                  !.done = Append(@, done),
                  !.pc = IF Continues(done) THEN "for cmd"
                         ELSE AfterPipeline(worker.block_number),
                  !.stages = IF Continues(done) THEN @
                             ELSE Append(@, Stage("handle_data_requests", done.result))]

cmd_AddBytes ==
    /\ worker.pc = "for cmd"
    /\ worker.queue # <<>>
    /\ Head(worker.queue).kind = "AddBytes"
    /\ \E signers \in 0..MaxSigners, connect, cat, disconnect, add \in IpfsOutcomes :
           Processed(AddBytes_command(Head(worker.queue), signers,
                                      connect, cat, disconnect, add))
    /\ RegistryUnchanged

cmd_CatBytes ==
    /\ worker.pc = "for cmd"
    /\ worker.queue # <<>>
    /\ Head(worker.queue).kind = "CatBytes"
    /\ \E signers \in 0..MaxSigners, mapped \in BOOLEAN, balance \in Balances,
          cat \in IpfsOutcomes :
           Processed(CatBytes_command(Head(worker.queue), signers,
                                      mapped, balance, cat))
    /\ RegistryUnchanged

handle_data_requests_Ok ==
    /\ worker.pc = "for cmd"
    /\ worker.queue = <<>>
    /\ worker' = [worker EXCEPT
                     !.pc = AfterPipeline(worker.block_number),
                     !.stages = Append(@, Stage("handle_data_requests", "Ok"))]
    /\ RegistryUnchanged

print_metadata ==
    /\ worker.pc = "print_metadata"
    /\ \E peers \in IpfsOutcomes :
           LET run == print_metadata_run(peers)
           IN  worker' = [worker EXCEPT
                             !.pc = "idle",
                             !.requests = run.requests,
                             !.responses = run.responses,
                             !.stages = Append(@, Stage("print_metadata", run.result))]
    /\ RegistryUnchanged

NextWorker ==
    \/ offchain_worker
    \/ connection_housekeeping
    \/ handle_data_requests
    \/ cmd_AddBytes
    \/ cmd_CatBytes
    \/ handle_data_requests_Ok
    \/ print_metadata

SpecWorker == InitWorker /\ [][NextWorker]_vars

(***************************************************************************)
(* Properties of the validator registry (checked under Spec)               *)
(***************************************************************************)
Count(s, x) == Cardinality({i \in 1..Len(s) : s[i] = x})
Pos(s, x) == CHOOSE i \in 1..Len(s) : s[i] = x
IsCall(op) == last.op = op
RegistryErrors == {"Duplicate", "TooLowValidatorCount", "ValidatorNotApproved",
                   "BadOrigin", "DispatchError::BadOrigin"}

\* C1: starting from a duplicate-free genesis set, Validators holds no id twice
\* after any sequence of add_validator, remove_validator and add_validator_again
\* calls (and of the other operations).
C1_NoDuplicateValidators == NoDup(Validators)

\* an add that went through do_add_validator's check and appended a third id
C1_Witness ==
    /\ last.op \in {"add_validator", "add_validator_again"}
    /\ last.validator_id \notin Range(last.pre.Validators)
    /\ Validators = Append(last.pre.Validators, last.validator_id)
    /\ Len(Validators) = 3

C5_ReinstateByOtherFails ==
    (IsCall("add_validator_again") /\ last.origin \in AccountIds
         /\ last.origin # last.validator_id) =>
        /\ last.res = "BadOrigin"
        /\ Storage = last.pre

\* another account asks for an approved validator that is not active: the call
\* that would have succeeded had the validator made it
C5_Witness ==
    /\ IsCall("add_validator_again")
    /\ last.origin \in AccountIds
    /\ last.origin # last.validator_id
    /\ last.validator_id \in Range(ApprovedValidators)
    /\ last.validator_id \notin Range(Validators)
    /\ last.res = "BadOrigin"

\* C6: add_validator_again by the validator itself fails with
\* ValidatorNotApproved, changing nothing, when the id is not approved; when it
\* is approved it fails with Duplicate if the id is active and otherwise appends
\* the id to Validators.
C6_ReinstateNeedsApproval ==
    (IsCall("add_validator_again") /\ last.origin = last.validator_id) =>
        IF last.validator_id \notin Range(last.pre.ApprovedValidators)
        THEN last.res = "ValidatorNotApproved" /\ Storage = last.pre
        ELSE IF last.validator_id \in Range(last.pre.Validators)
        THEN last.res = "Duplicate" /\ Storage = last.pre
        ELSE /\ last.res = "Ok"
             /\ Storage = [last.pre EXCEPT !.Validators = Append(@, last.validator_id)]

\* a validator that was never approved asks to be added again
C6_Witness ==
    /\ IsCall("add_validator_again")
    /\ last.origin = last.validator_id
    /\ last.validator_id \notin Range(last.pre.ApprovedValidators)
    /\ last.validator_id \notin Range(last.pre.Validators)
    /\ last.res = "ValidatorNotApproved"

\* C7: after a successful remove_validator(id), id is absent from
\* ApprovedValidators (so that a following add_validator_again fails with
\* ValidatorNotApproved).
C7_RemoveUnapproves ==
    (IsCall("remove_validator") /\ last.res = "Ok")
        => last.validator_id \notin Range(ApprovedValidators)

\* C8: an entry point that returns an error leaves Validators,
\* ApprovedValidators and OfflineValidators exactly as they were before the call.
C8_ErrorLeavesStorageUnchanged ==
    last.res \in RegistryErrors => Storage = last.pre

\* C9: when an id was marked offline two or more times before new_session, the
\* boundary removes that id, removes no id that was not marked, takes away as
\* many entries as there are distinct marked validators, and leaves
\* OfflineValidators empty.
C9_RepeatedMarkRemovesOnce ==
    (IsCall("new_session")
         /\ \E id \in AccountIds : Count(last.pre.OfflineValidators, id) >= 2) =>
        LET marked == Range(last.pre.OfflineValidators)
        IN  /\ \A id \in marked : id \notin Range(Validators)
            /\ \A other \in Range(last.pre.Validators) \ marked : other \in Range(Validators)
            /\ Len(Validators) = Len(last.pre.Validators)
                                    - Cardinality(Range(last.pre.Validators) \cap marked)
            /\ OfflineValidators = <<>>

\* an active validator marked twice, and the boundary took exactly it away
C9_Witness ==
    /\ IsCall("new_session")
    /\ \E id \in Range(last.pre.Validators) :
           /\ Count(last.pre.OfflineValidators, id) = 2
           /\ Validators = RetainNe(last.pre.Validators, id)
    /\ Len(Validators) = Len(last.pre.Validators) - 1
    /\ Len(Validators) >= 1

\* C14: new_session never returns None: for every state and session index it
\* returns Some(s) with s the Validators left by the offline removal, which is
\* the set in storage afterwards; start_session and end_session change no
\* storage.
C14_SessionPlanIsCurrentSet ==
    /\ IsCall("new_session") =>
           /\ last.res = "Some"
           /\ last.ret = Validators
           /\ Range(last.ret) = Range(last.pre.Validators) \ Range(last.pre.OfflineValidators)
    /\ (IsCall("start_session") \/ IsCall("end_session")) =>
           /\ Storage = last.pre
           /\ last.events = <<>>

\* a boundary that removed a marked validator and planned the smaller set
C14_Witness ==
    /\ IsCall("new_session")
    /\ last.res = "Some"
    /\ Len(last.ret) < Len(last.pre.Validators)
    /\ last.ret = Validators
    /\ last.index = 1

\* C15: report_offence returns Ok for every report and appends the report's
\* offenders, in order and without a duplicate or membership check, to
\* OfflineValidators, leaving Validators and ApprovedValidators alone;
\* is_known_offence answers false and changes nothing.
C15_ReportOffenceAppends ==
    /\ IsCall("report_offence") =>
           /\ last.res = "Ok"
           /\ OfflineValidators = last.pre.OfflineValidators \o last.offenders
           /\ Validators = last.pre.Validators
           /\ ApprovedValidators = last.pre.ApprovedValidators
    /\ IsCall("is_known_offence") =>
           /\ last.res = "false"
           /\ Storage = last.pre

\* a report that names an id already marked, which is no active validator
C15_Witness ==
    /\ IsCall("report_offence")
    /\ Len(last.offenders) = 1
    /\ last.offenders[1] \in Range(last.pre.OfflineValidators)
    /\ last.offenders[1] \notin Range(Validators)
    /\ Count(OfflineValidators, last.offenders[1]) = 2

\* C21: an offline mark is applied at one session boundary only: a new_session
\* leaves no mark behind and takes out of Validators no id that carried no
\* mark, and a call adds a mark only if it is a report_offence that names the
\* id (last.pre is the storage the last call found); so a
\* validator removed at a boundary and added again afterwards stays in
\* Validators across every later boundary until a new report names it.
C21_MarkAppliedAtOneBoundary ==
    /\ IsCall("new_session") =>
           /\ OfflineValidators = <<>>
           /\ \A id \in Range(last.pre.Validators) \ Range(last.pre.OfflineValidators) :
                  id \in Range(Validators)
    /\ \A id \in AccountIds :
           Count(OfflineValidators, id) > Count(last.pre.OfflineValidators, id)
               => /\ IsCall("report_offence")
                  /\ id \in Range(last.offenders)

\* A was removed at an earlier boundary, added again, and is still there after a
\* later boundary that found a mark for another id.  (With a minimum of 2 and
\* only the genesis ids A and B ever approved, Validators never has three
\* entries, so remove_validator never succeeds and A, now behind B, can only
\* have been taken out by an offline removal.)
C21_Witness ==
    /\ IsCall("new_session")
    /\ MinAuthorities = 2
    /\ ApprovedValidators = <<"A", "B">>
    /\ last.pre.Validators = <<"B", "A">>
    /\ last.pre.OfflineValidators # <<>>
    /\ Validators = <<"B", "A">>
    /\ OfflineValidators = <<>>

\* C22: in every state reached from the genesis by add_validator,
\* remove_validator, add_validator_again, report_offence and new_session (and
\* the other operations), every id in Validators is also in ApprovedValidators.
C22_ActiveIsApproved == Range(Validators) \subseteq Range(ApprovedValidators)

\* root adds a third id, not approved before, which is then active and approved
\* after ids were marked and a boundary has passed
C22_Witness ==
    /\ IsCall("add_validator")
    /\ last.res = "Ok"
    /\ last.validator_id \notin Range(last.pre.ApprovedValidators)
    /\ last.validator_id \in Range(Validators) \cap Range(ApprovedValidators)
    /\ Len(last.pre.Validators) < Len(last.pre.ApprovedValidators)

\* a remove_validator by root for an id that was not in Validators
RemoveOfAbsent ==
    /\ IsCall("remove_validator")
    /\ AddRemoveOrigin(last.origin)
    /\ last.validator_id \notin Range(last.pre.Validators)

\* C23: remove_validator(id) for an id that is not in Validators is decided by
\* the count alone: it fails with TooLowValidatorCount when len(Validators) - 1
\* is below MinAuthorities, although nothing would be removed, and otherwise it
\* succeeds, deposits ValidatorRemovalInitiated and leaves Validators unchanged.
C23_AbsentIdDecidedByCount ==
    RemoveOfAbsent =>
        IF Len(last.pre.Validators) - 1 < MinAuthorities
        THEN /\ last.res = "TooLowValidatorCount"
             /\ Validators = last.pre.Validators
        ELSE /\ last.res = "Ok"
             /\ last.events = <<<<"ValidatorRemovalInitiated", last.validator_id>>>>
             /\ Validators = last.pre.Validators

\* C23, amended: the difference len(Validators) - 1 saturates at zero, so that
\* with no validator left and a minimum of zero the call succeeds; in every
\* other case the decision is the one of the difference.
C23_AbsentIdDecidedBySaturatedCount ==
    RemoveOfAbsent =>
        IF saturating_sub(Len(last.pre.Validators), 1) < MinAuthorities
        THEN /\ last.res = "TooLowValidatorCount"
             /\ Validators = last.pre.Validators
        ELSE /\ last.res = "Ok"
             /\ last.events = <<<<"ValidatorRemovalInitiated", last.validator_id>>>>
             /\ Validators = last.pre.Validators

\* two validators and a minimum of two: removing an id that is not there would
\* leave both, and the call is refused all the same
C23_Witness ==
    /\ RemoveOfAbsent
    /\ MinAuthorities = 2
    /\ Len(last.pre.Validators) = 2
    /\ last.res = "TooLowValidatorCount"
    /\ Validators = last.pre.Validators

\* add_validator_again(id, id) called on the storage st succeeds and appends id
Reinstates(st, id) ==
    LET out == add_validator_again_call(st, id, id)
    IN  /\ out.res = "Ok"
        /\ out.st = [st EXCEPT !.Validators = Append(@, id)]

\* C24: the offline removal of new_session leaves ApprovedValidators unchanged,
\* so an approved validator it took out of Validators can reinstate itself:
\* right after the boundary add_validator_again(id, id) would succeed, no call
\* made in between takes this away for as long as id is not active, and the
\* add_validator_again(id, id) that is then made returns Ok and appends id to
\* Validators (last.pre is the storage the last call found).
C24_OfflineRemovedCanReinstate ==
    /\ IsCall("new_session") =>
           /\ ApprovedValidators = last.pre.ApprovedValidators
           /\ \A id \in Range(last.pre.Validators) \cap Range(last.pre.OfflineValidators)
                                                    \cap Range(last.pre.ApprovedValidators) :
                  Reinstates(Storage, id)
    /\ \A id \in AccountIds :
           (Reinstates(last.pre, id) /\ id \notin Range(Validators))
               => Reinstates(Storage, id)
    /\ (/\ IsCall("add_validator_again")
        /\ last.origin = last.validator_id
        /\ Reinstates(last.pre, last.validator_id))
           => /\ last.res = "Ok"
              /\ Validators = Append(last.pre.Validators, last.validator_id)
              /\ ApprovedValidators = last.pre.ApprovedValidators

\* A, taken out at a boundary, has added itself again behind B.  (With a
\* minimum of 2 and only the genesis ids A and B ever approved, no
\* remove_validator has succeeded, so A was removed by an offline removal.)
C24_Witness ==
    /\ IsCall("add_validator_again")
    /\ last.origin = "A"
    /\ last.validator_id = "A"
    /\ last.res = "Ok"
    /\ MinAuthorities = 2
    /\ ApprovedValidators = <<"A", "B">>
    /\ last.pre.Validators = <<"B">>
    /\ Validators = <<"B", "A">>

(***************************************************************************)
(* Properties of the offchain worker (checked under SpecWorker)            *)
(***************************************************************************)
ZeroBalance == [hi |-> 0, lo |-> 0]
Dones == Range(worker.done)

\* C10: a CatBytes command whose recipient has balance 0 of the asset issues no
\* CatBytes request, writes nothing to local storage, submits no transaction,
\* and ends handle_data_requests with InsufficientBalance.
C10_ZeroBalanceNeverFetches ==
    \A d \in Dones :
        (d.cmd.kind = "CatBytes" /\ d.balance = ZeroBalance) =>
            /\ d.requests = <<>>
            /\ d.storage_set = <<>>
            /\ d.submitted = <<>>
            /\ d.result = "InsufficientBalance"
            /\ Stage("handle_data_requests", "InsufficientBalance") \in Range(worker.stages)

\* a CatBytes command for a mapped asset and a recipient with balance 0 was run
C10_Witness ==
    \E d \in Dones :
        /\ d.cmd.kind = "CatBytes"
        /\ d.mapped
        /\ d.balance = ZeroBalance
        /\ d.result = "InsufficientBalance"

PositiveBalance(balance) == balance.hi = 0 /\ balance.lo > 0

\* C11: a CatBytes command with a mapped asset and a recipient balance above 0
\* issues exactly one store request, CatBytes(cid); when that request succeeds
\* there is exactly one local-storage write, of the fetched bytes under cid, and
\* one submit_rpc_ready transaction for the recipient per local signing account
\* (none when there is no account, the storage write still made).
C11_FetchWithBalance ==
    \A d \in Dones :
        (d.cmd.kind = "CatBytes" /\ d.mapped /\ PositiveBalance(d.balance)) =>
            /\ d.requests = <<Request("CatBytes", d.cmd.cid)>>
            /\ Len(d.responses) = 1
            /\ d.responses = <<"Ok">> =>
                   /\ d.storage_set = <<<<d.cmd.cid, FetchedData>>>>
                   /\ d.signers # None
                   /\ Len(d.submitted) = d.signers[1]
                   /\ \A i \in 1..Len(d.submitted) :
                          d.submitted[i] = [call |-> "submit_rpc_ready",
                                            beneficiary |-> d.cmd.who]

\* the fetch succeeded on a node with two signing accounts
C11_Witness ==
    \E d \in Dones :
        /\ d.cmd.kind = "CatBytes"
        /\ d.mapped
        /\ d.balance = [hi |-> 0, lo |-> 5]
        /\ d.responses = <<"Ok">>
        /\ d.signers = Some(2)
        /\ Len(d.submitted) = 2
        /\ Len(d.storage_set) = 1

\* handle_data_requests has returned in this tick
PipelineReturned == \E st \in Range(worker.stages) : st[1] = "handle_data_requests"

\* C12: a command that fails abandons only itself: when handle_data_requests
\* returns, every command of the queue read at the start of the tick has been
\* processed, also those behind a failed one.
C12_FailureAbandonsOnlyThatCommand ==
    PipelineReturned => worker.queue = <<>>

\* C13: an AddBytes command whose Connect request fails issues no CatBytes,
\* Disconnect or AddBytes request and submits no transaction.
C13_ConnectFailureStopsPublish ==
    \A d \in Dones :
        (d.cmd.kind = "AddBytes" /\ Len(d.responses) >= 1 /\ d.responses[1] = "Err") =>
            /\ d.requests = <<Request("Connect", d.cmd.addr)>>
            /\ d.submitted = <<>>
            /\ d.storage_set = <<>>

\* the Connect of an AddBytes command was answered with an error
C13_Witness ==
    \E d \in Dones :
        /\ d.cmd.kind = "AddBytes"
        /\ d.requests[1] = Request("Connect", "/ip4/source")
        /\ d.responses = <<"Err">>
        /\ d.result = "RequestTimeout"

\* the balance does not fit u64: try_into fails
Unconverted(balance) == try_into_u64(balance) = None

\* C16, as claimed: a CatBytes command whose balance fails the conversion to u64
\* is treated like a zero balance: no CatBytes request, no local-storage write,
\* no transaction.
C16_UnconvertedBalanceDenied ==
    \A d \in Dones :
        (d.cmd.kind = "CatBytes" /\ Unconverted(d.balance)) =>
            /\ d.requests = <<>>
            /\ d.storage_set = <<>>
            /\ d.submitted = <<>>

\* C16, amended: a balance whose conversion to u64 fails is not treated as zero:
\* the command passes the balance check, never ends with InsufficientBalance,
\* issues the CatBytes(cid) request, and when that succeeds writes local storage
\* and submits one transaction per local signing account.
C16_UnconvertedBalancePasses ==
    \A d \in Dones :
        (d.cmd.kind = "CatBytes" /\ Unconverted(d.balance)) =>
            /\ d.result # "InsufficientBalance"
            /\ d.requests = <<Request("CatBytes", d.cmd.cid)>>
            /\ d.responses = <<"Ok">> =>
                   /\ d.storage_set = <<<<d.cmd.cid, FetchedData>>>>
                   /\ d.signers # None
                   /\ Len(d.submitted) = d.signers[1]

\* a recipient with a balance of 2^64 was served
C16_Witness ==
    \E d \in Dones :
        /\ d.cmd.kind = "CatBytes"
        /\ d.balance = [hi |-> 1, lo |-> 0]
        /\ d.responses = <<"Ok">>
        /\ Len(d.storage_set) = 1
        /\ Len(d.submitted) >= 1

\* C17: a CatBytes command for an {owner, cid} pair without an asset-id mapping
\* is logged and skipped: no CatBytes request, no local-storage write, no
\* transaction, no error returned by handle_data_requests.
C17_UnmappedFetchSkipped ==
    \A d \in Dones :
        (d.cmd.kind = "CatBytes" /\ ~d.mapped) =>
            /\ d.requests = <<>>
            /\ d.storage_set = <<>>
            /\ d.submitted = <<>>
            /\ Continues(d)

\* the four store requests of an AddBytes command, in the order of the code
PublishRequests(cmd) ==
    <<Request("Connect", cmd.addr), Request("CatBytes", cmd.cid),
      Request("Disconnect", cmd.addr), Request("AddBytes", FetchedData)>>

\* C18: an AddBytes command issues Connect(source), CatBytes(cid),
\* Disconnect(source), AddBytes(data) in this order, each only after the one
\* before succeeded, and nothing after a request that failed; transactions are
\* submitted only after all four succeeded, and each carries the cid AddBytes
\* returned (not the requested one) with the command's admin, asset id and
\* balance.
C18_PublishOrder ==
    \A d \in Dones :
        d.cmd.kind = "AddBytes" =>
            LET n == Len(d.requests)
            IN  /\ n \in 1..4
                /\ d.requests = SubSeq(PublishRequests(d.cmd), 1, n)
                /\ Len(d.responses) = n
                /\ \A i \in 1..(n - 1) : d.responses[i] = "Ok"
                /\ n < 4 => d.responses[n] = "Err"
                /\ d.responses[n] = "Err" => d.submitted = <<>> /\ d.signers = None
                /\ d.submitted # <<>> => n = 4 /\ d.responses[4] = "Ok"
                /\ (n = 4 /\ d.responses[4] = "Ok") =>
                       /\ d.signers # None
                       /\ Len(d.submitted) = d.signers[1]
                /\ \A i \in 1..Len(d.submitted) :
                       /\ d.submitted[i] = [call |-> "submit_ipfs_add_results",
                                            admin |-> d.cmd.who, cid |-> NewCid,
                                            id |-> d.cmd.id, balance |-> d.cmd.balance]
                       /\ d.submitted[i].cid # d.cmd.cid

\* all four requests succeeded and the result was submitted
C18_Witness ==
    \E d \in Dones :
        /\ d.cmd.kind = "AddBytes"
        /\ d.responses = <<"Ok", "Ok", "Ok", "Ok">>
        /\ Len(d.submitted) = 2
        /\ d.submitted[1].cid = NewCid

StageNames == [i \in 1..Len(worker.stages) |-> worker.stages[i][1]]

\* the stages offchain_worker runs for a block number, in order
ExpectedStages(block_number) ==
    IF block_number % 5 = 0
    THEN <<"connection_housekeeping", "handle_data_requests", "print_metadata">>
    ELSE <<"handle_data_requests">>

\* C19: in every tick handle_data_requests runs exactly once; the housekeeping
\* and the metadata probe run only when the block number is a multiple of 5,
\* the housekeeping before the pipeline and the probe after it; a stage that
\* returns an error does not keep the later stages of the tick from running.
C19_TickStages ==
    worker.block_number >= 1 =>
        LET expected == ExpectedStages(worker.block_number)
        IN  /\ Len(StageNames) <= Len(expected)
            /\ StageNames = SubSeq(expected, 1, Len(StageNames))
            /\ worker.pc = "idle" => StageNames = expected

\* a tick of block 5 in which the housekeeping and the pipeline both returned an
\* error and the probe still ran
C19_Witness ==
    /\ worker.pc = "idle"
    /\ worker.block_number = 5
    /\ Len(worker.stages) = 3
    /\ worker.stages[1][2] # "Ok"
    /\ worker.stages[2][2] # "Ok"
    /\ worker.stages[3][1] = "print_metadata"

\* C20: a run of connection_housekeeping issues no Connect request when the
\* node's own key is in the bootstrap directory; otherwise it connects to the
\* last multiaddress of the first entry and, when that connect fails, makes
\* exactly one more attempt, to the second-to-last multiaddress of that entry;
\* it makes at most two attempts and does not return a connect failure as an
\* error.
C20_HousekeepingFallback ==
    worker.bootstrap # None =>
        LET b == worker.bootstrap[1]
            connects == Tail(worker.requests)
            answers == Tail(worker.responses)
            maddrs == IF b.first = None THEN <<>> ELSE b.first[1]
        IN  /\ b.own => connects = <<>>
            /\ Len(connects) <= 2
            /\ connects # <<>> =>
                   connects[1] = Request("Connect", maddrs[Len(maddrs)])
            /\ (connects # <<>> /\ answers[1] # "Ok" /\ Len(maddrs) >= 2) =>
                   /\ Len(connects) = 2
                   /\ connects[2] = Request("Connect", maddrs[Len(maddrs) - 1])
            /\ worker.responses[1] = "Ok" =>
                   worker.stages[1] = Stage("connection_housekeeping", "Ok")

====
